---- MODULE Spec2Model ----
(***************************************************************************)
(* Bond valuation and stress engine of backend/services/bond_pricer.py.    *)
(*                                                                         *)
(* Floating-point quantities are modelled as decimal fixed-point integers, *)
(* every arithmetic step rounded to nearest (ties to even) like an IEEE    *)
(* operation, only at a coarser resolution:                                *)
(*   rates, yields, ratios, durations (unrounded) : units of 10^-7         *)
(*   money (unrounded)                            : units of 10^-6         *)
(*   maturity_years                               : units of 10^-5         *)
(*   quantity                                     : units of 10^-1         *)
(* Values returned by round(x, 4) are integers in units of 10^-4, values   *)
(* returned by round(x, 2) are integers in units of 10^-2.                 *)
(*                                                                         *)
(* Consequences of the encoding: a returned field can differ from the      *)
(* double-precision value by one unit in its last decimal place (decimal   *)
(* ties are broken to even, where the binary value of a double decides);   *)
(* for face values below 10^-3 the ratios derived from the price lose      *)
(* their resolution, the prices do not.  A price of exactly zero in the    *)
(* periodic branch (face_value = 0) makes numpy produce nan for the ratios *)
(* derived from it; the result then carries finite = FALSE.  ytm <= -2,    *)
(* for which a discount factor vanishes, is not among the inputs.          *)
(***************************************************************************)
EXTENDS Integers, Sequences, FiniteSets, TLC

VARIABLES
    op,        \* "price" or "stress": the operation the caller invokes
    args,      \* its arguments
    pc,        \* "call", "loop" (inside the for loop of stress), "done"
    result,    \* price: the value of price_bond
    base,      \* stress: local base
    results,   \* stress: local results
    ret,       \* "pending", "returned" or the name of the exception raised
    calls,     \* the price_bond calls made so far: yield passed and locals
    thread,    \* concurrent callers: each thread's call and its position
    frames,    \* concurrent callers: the locals of each call of stress
    presets    \* the module-level dict INDIAN_BOND_PRESETS

call_vars == <<op, args, pc, result, base, results, ret, calls>>

conc_vars == <<thread, frames, presets>>

vars == <<op, args, pc, result, base, results, ret, calls,
          thread, frames, presets>>

----------------------------------------------------------------------------
(* Scales of the fixed-point encoding.                                     *)

RateScale  == 10^7     \* 1.0 as a rate, a ratio or a duration in years
MoneyScale == 10^6     \* 1.0 currency unit
YearScale  == 10^5     \* 1.0 year of maturity_years
QtyScale   == 10       \* quantity 1.0

(* Model bounds.                                                           *)
MaxHalfYears == 3      \* longest periodic maturity, in half-years
MaxQuantity  == 1      \* largest |quantity| of the integer quantities
PowBits      == 16     \* binary digits of the exponent used by Pow
NumThreads   == 2      \* threads calling price and stress concurrently

----------------------------------------------------------------------------
(* Arithmetic.                                                             *)

Abs(x) == IF x < 0 THEN -x ELSE x

Sgn(x) == IF x < 0 THEN -1 ELSE IF x = 0 THEN 0 ELSE 1

Max(a, b) == IF b > a THEN b ELSE a

\* <<quotient, remainder>> of a*b by c for 0 <= a < c, 0 <= b, computed
\* without forming the product.
RECURSIVE MulDivLow(_, _, _)
MulDivLow(a, b, c) ==
    IF b = 0 THEN <<0, 0>>
    ELSE LET h == MulDivLow(a, b \div 2, c)
             t == 2 * h[2] + (b % 2) * a
         IN  <<2 * h[1] + (t \div c), t % c>>

\* <<floor(a*b/c), (a*b) mod c>> for a, b >= 0 and c > 0.
MulDivQR(a, b, c) ==
    LET h == MulDivLow(a % c, b, c)
    IN  <<(a \div c) * b + h[1], h[2]>>

\* a*b/c as one floating-point result: rounded to nearest, ties to even.
FMulDiv(a, b, c) ==
    LET h  == MulDivQR(Abs(a), Abs(b), Abs(c))
        up == \/ 2 * h[2] > Abs(c)
              \/ 2 * h[2] = Abs(c) /\ h[1] % 2 = 1
    IN  Sgn(a) * Sgn(b) * Sgn(c) * (h[1] + IF up THEN 1 ELSE 0)

\* round(x, ndigits): x in units u, result in units unit*u.
Round(x, unit) == FMulDiv(x, 1, unit)

\* floor(sqrt(x * RateScale)) for x > 0, from a start s >= sqrt(x * RateScale)
\* (integer Newton iteration).
RECURSIVE Newton(_, _)
Newton(x, s) ==
    LET t == (s + MulDivQR(x, RateScale, s)[1]) \div 2
    IN  IF t >= s THEN s ELSE Newton(x, t)

\* round(x * 100, 4) for x in RateScale units: x * 100 is in units of 10^-5.
Pct4(x) == Round(x, 10)

\* Square root of a positive RateScale number, rounded to nearest.
FSqrt(x) ==
    LET s == Newton(x, Max(x, RateScale))
    IN  IF MulDivQR(s, s + 1, RateScale)[1] < x THEN s + 1 ELSE s

\* st[1] ** (st[2] / YearScale) * st[3] for st[1] > 0, 0 <= st[2] < YearScale:
\* square-and-multiply over the first j binary digits of the exponent, with
\* st = <<current root, exponent left, product so far>>.
RECURSIVE PowFrac(_, _)
PowFrac(st, j) ==
    IF j = 0 \/ st[2] = 0 THEN st[3]
    ELSE LET s == FSqrt(st[1])
         IN  IF 2 * st[2] >= YearScale
             THEN PowFrac(<<s, 2 * st[2] - YearScale,
                            FMulDiv(st[3], s, RateScale)>>, j - 1)
             ELSE PowFrac(<<s, 2 * st[2], st[3]>>, j - 1)

\* b ** m for b > 0 in RateScale units and m in YearScale units, |m| < 1.
Pow(b, m) ==
    IF m >= 0 THEN PowFrac(<<b, m, RateScale>>, PowBits)
    ELSE FMulDiv(RateScale, RateScale, PowFrac(<<b, -m, RateScale>>, PowBits))

RECURSIVE SumSeq(_)
SumSeq(s) == IF s = <<>> THEN 0 ELSE Head(s) + SumSeq(Tail(s))

----------------------------------------------------------------------------
(* price_bond.  The value is a record: outcome is "returned" or the name   *)
(* of the exception raised; n_periods and cash_flows expose the locals of  *)
(* the call; branch is "discount" (n_periods = 0, price is a Python float)  *)
(* or "periodic" (price is a numpy float); finite is FALSE when the price  *)
(* is zero and numpy makes nan of macaulay_duration, modified_duration,    *)
(* convexity, dv01 and price_to_face (these fields then read 0); the other *)
(* fields are the returned dict and carry no meaning unless outcome =      *)
(* "returned".                                                             *)

\* int(x) for x in units of scale: truncation toward zero.
int(x, scale) == Sgn(x) * (Abs(x) \div scale)

PricingResult(outcome, n, cfs, branch, fin, f) ==
    [outcome |-> outcome, n_periods |-> n, cash_flows |-> cfs,
     branch |-> branch, finite |-> fin,
     price |-> f[1], macaulay_duration |-> f[2], modified_duration |-> f[3],
     convexity |-> f[4], dv01 |-> f[5], current_yield |-> f[6],
     price_to_face |-> f[7], ytm_pct |-> f[8], coupon_pct |-> f[9]]

NoFields == <<0, 0, 0, 0, 0, 0, 0, 0, 0>>

Raised(kind, n, branch) ==
    PricingResult(kind, n, <<>>, branch, TRUE, NoFields)

\* discount_factors with the sign of the yield reversed:
\* (1 - semi_ytm) ** periods.
RECURSIVE discount_factors_minus(_, _)
discount_factors_minus(g, n) ==
    IF n = 0 THEN <<>>
    ELSE LET prev == discount_factors_minus(g, n - 1)
         IN  Append(prev, IF n = 1 THEN 4 * RateScale - g
                          ELSE FMulDiv(prev[n - 1], 4 * RateScale - g,
                                       2 * RateScale))

\* (1 + semi_ytm) ** periods for periods 1..n, as numbers of scale
\* 2 * RateScale; g is 1 + semi_ytm in that scale.
RECURSIVE discount_factors(_, _)
discount_factors(g, n) ==
    IF n = 0 THEN <<>>
    ELSE LET prev == discount_factors(g, n - 1)
         IN  Append(prev, IF n = 1 THEN g
                          ELSE FMulDiv(prev[n - 1], g, 2 * RateScale))

\* price_discount with the current yield of the periodic branch.
price_discount_current_yield(face_value, coupon_rate, ytm, maturity_years) ==
    LET b == RateScale + ytm                       \* 1 + ytm
    IN
    IF maturity_years # 0 /\ b = 0 THEN
        Raised("ZeroDivisionError", 0, "discount") \* x / 0.0 ** m
    ELSE IF maturity_years # 0 /\ b < 0 THEN
        Raised("TypeError", 0, "discount")         \* round() of a complex
    ELSE IF b = 0 \/ face_value = 0 THEN
        Raised("ZeroDivisionError", 0, "discount") \* lines 34 and 38
    ELSE
        LET pw    == IF maturity_years = 0 THEN RateScale
                     ELSE Pow(b, maturity_years)
            price == FMulDiv(face_value, RateScale, pw)
            mod   == FMulDiv(maturity_years * 100, RateScale, b)
            dv01  == FMulDiv(FMulDiv(FMulDiv(price, maturity_years, YearScale),
                                     RateScale, b), 1, 10000)
            ptf   == FMulDiv(price, RateScale, face_value)
        IN  PricingResult("returned", 0, <<>>, "discount", TRUE,
               <<Round(price, 100), Round(maturity_years, 10),
                 Round(mod, 1000), 0, Round(dv01, 100),
                 Pct4(FMulDiv(FMulDiv(face_value, coupon_rate, RateScale),
                              RateScale, price)),
                 Pct4(ptf), Pct4(ytm),
                 Pct4(coupon_rate)>>)

\* The n_periods = 0 branch (lines 29-41).
price_discount(face_value, coupon_rate, ytm, maturity_years) ==
    LET b == RateScale + ytm                       \* 1 + ytm
    IN
    IF maturity_years # 0 /\ b = 0 THEN
        Raised("ZeroDivisionError", 0, "discount") \* x / 0.0 ** m
    ELSE IF maturity_years # 0 /\ b < 0 THEN
        Raised("TypeError", 0, "discount")         \* round() of a complex
    ELSE IF b = 0 \/ face_value = 0 THEN
        Raised("ZeroDivisionError", 0, "discount") \* lines 34 and 38
    ELSE
        LET pw    == IF maturity_years = 0 THEN RateScale
                     ELSE Pow(b, maturity_years)
            price == FMulDiv(face_value, RateScale, pw)
            mod   == FMulDiv(maturity_years * 100, RateScale, b)
            dv01  == FMulDiv(FMulDiv(FMulDiv(price, maturity_years, YearScale),
                                     RateScale, b), 1, 10000)
            ptf   == FMulDiv(price, RateScale, face_value)
        IN  PricingResult("returned", 0, <<>>, "discount", TRUE,
               <<Round(price, 100), Round(maturity_years, 10),
                 Round(mod, 1000), 0, Round(dv01, 100), 0,
                 Pct4(ptf), Pct4(ytm),
                 Pct4(coupon_rate)>>)

\* cash_flows_of with the principal paid in the first period.
cash_flows_principal_first(semi_coupon, face_value, n_periods) ==
    [i \in 1..n_periods |-> semi_coupon + IF i = 1 THEN face_value ELSE 0]

\* np.full(n_periods, semi_coupon); cash_flows[-1] += face_value
cash_flows_of(semi_coupon, face_value, n_periods) ==
    [i \in 1..n_periods |->
        semi_coupon + IF i = n_periods THEN face_value ELSE 0]

\* The periodic branch (lines 43-78).
price_periodic(face_value, coupon_rate, ytm, maturity_years, n_periods) ==
    LET semi_coupon == FMulDiv(face_value, coupon_rate, 2 * RateScale)
        g           == 2 * RateScale + ytm         \* 1 + semi_ytm, doubled
        cash_flows  == cash_flows_of(semi_coupon, face_value, n_periods)
        dfs         == discount_factors(g, n_periods)
        pv_cash_flows == [i \in 1..n_periods |->
                            FMulDiv(cash_flows[i], 2 * RateScale, dfs[i])]
        price       == SumSeq(pv_cash_flows)
    IN
    IF price = 0 THEN                              \* 0/0: nan, no exception
        PricingResult("returned", n_periods, cash_flows, "periodic", FALSE,
                      <<0, 0, 0, 0, 0, 0, 0, Pct4(ytm), Pct4(coupon_rate)>>)
    ELSE
        LET wsum == SumSeq([i \in 1..n_periods |-> pv_cash_flows[i] * i])
            mac_duration == FMulDiv(FMulDiv(wsum, RateScale, price), 1, 2)
            mod_duration == FMulDiv(mac_duration, 2 * RateScale, g)
            convexity_sum ==
                SumSeq([i \in 1..n_periods |-> pv_cash_flows[i] * i * (i + 1)])
            gsq  == FMulDiv(g, g, 2 * RateScale)   \* (1 + semi_ytm) ** 2
            \* convexity_sum / (price * gsq * 4), divided factor by factor
            \* to keep the resolution of small prices
            convexity == FMulDiv(FMulDiv(FMulDiv(convexity_sum, RateScale,
                                                 price),
                                         2 * RateScale, gsq), 1, 4)
            dv01 == FMulDiv(FMulDiv(mod_duration, price, RateScale), 1, 10000)
            annual_coupon == FMulDiv(face_value, coupon_rate, RateScale)
            current_yield == IF price > 0
                             THEN FMulDiv(annual_coupon, RateScale, price)
                             ELSE 0
            ptf  == FMulDiv(price, RateScale, face_value)
        IN  PricingResult("returned", n_periods, cash_flows, "periodic", TRUE,
               <<Round(price, 100), Round(mac_duration, 1000),
                 Round(mod_duration, 1000), Round(convexity, 1000),
                 Round(dv01, 100), Pct4(current_yield),
                 Pct4(ptf), Pct4(ytm),
                 Pct4(coupon_rate)>>)

price_bond(face_value, coupon_rate, ytm, maturity_years) ==
    LET n_periods == int(maturity_years * 2, YearScale)
    IN  IF n_periods = 0
        THEN price_discount(face_value, coupon_rate, ytm, maturity_years)
        ELSE IF n_periods < 0
        THEN Raised("ValueError", n_periods, "periodic")  \* np.full(n < 0, ..)
        ELSE price_periodic(face_value, coupon_rate, ytm, maturity_years,
                            n_periods)

----------------------------------------------------------------------------
(* stress_test_bond.                                                       *)

YieldFloor == 1000                       \* 0.0001

BpsUnit == RateScale \div 10000          \* shock_bps / 10000

\* shocks ordered by magnitude.
shocks_by_magnitude == <<0, -50, 50, -100, 100, -200, 200, -300, 300>>

shocks == <<-300, -200, -100, -50, 0, 50, 100, 200, 300>>

\* shocked_ytm_of without the floor.
shocked_ytm_unfloored(ytm, shock_bps) == ytm + shock_bps * BpsUnit

shocked_ytm_of(ytm, shock_bps) == Max(YieldFloor, ytm + shock_bps * BpsUnit)

\* pnl_per_bond / base['price'] * 100: a numpy float divided by zero gives
\* nan or +-inf (with a warning), a Python float raises ZeroDivisionError.
PnlPctClass(pnl_per_bond, b) ==
    IF b.price # 0 THEN "finite"
    ELSE IF b.branch = "discount" THEN "ZeroDivisionError"
    ELSE IF pnl_per_bond = 0 THEN "nan"
    ELSE IF pnl_per_bond > 0 THEN "inf" ELSE "-inf"

\* StressScenario with the subtraction reversed.
StressScenario_reversed(b, shocked_price, shock_bps, shocked_ytm, quantity) ==
    LET pnl_per_bond == b.price - shocked_price.price
        total_pnl    == pnl_per_bond * quantity
        class        == PnlPctClass(pnl_per_bond, b)
    IN  [shock_bps     |-> shock_bps,
         shocked_ytm   |-> Pct4(shocked_ytm),
         price         |-> shocked_price.price,
         pnl_per_bond  |-> pnl_per_bond,
         total_pnl     |-> Round(total_pnl, 100 * QtyScale),
         pnl_pct       |-> IF class = "finite"
                           THEN Pct4(FMulDiv(pnl_per_bond, RateScale, b.price))
                           ELSE 0,
         pnl_pct_class |-> class]

\* The dict appended by one iteration of the loop (lines 94-104).
StressScenario(b, shocked_price, shock_bps, shocked_ytm, quantity) ==
    LET pnl_per_bond == shocked_price.price - b.price
        total_pnl    == pnl_per_bond * quantity
        class        == PnlPctClass(pnl_per_bond, b)
    IN  [shock_bps     |-> shock_bps,
         shocked_ytm   |-> Pct4(shocked_ytm),
         price         |-> shocked_price.price,
         pnl_per_bond  |-> pnl_per_bond,
         total_pnl     |-> Round(total_pnl, 100 * QtyScale),
         pnl_pct       |-> IF class = "finite"
                           THEN Pct4(FMulDiv(pnl_per_bond, RateScale, b.price))
                           ELSE 0,
         pnl_pct_class |-> class]

----------------------------------------------------------------------------
(* Inputs and the calls.                                                   *)

FaceValues == {MoneyScale, 10, 0, -MoneyScale}     \* 1, 0.00001, 0, -1

CouponRates == {0, 500000, -500000}                \* 0, 5%, -5%

Yields == {712346, 50000, 0, -RateScale}           \* 7.12346%, 0.5%, 0, -1

Maturities ==
    {25000, 24932, 75000, 0, -25000, -100000}      \* 0.25, 91/365, 0.75, ...
        \cup {k * (YearScale \div 2) : k \in 1..MaxHalfYears}

Quantities ==
    {q * QtyScale : q \in -MaxQuantity..MaxQuantity} \cup {-15}  \* .., -1.5

Args == [face_value : FaceValues, coupon_rate : CouponRates, ytm : Yields,
         maturity_years : Maturities, quantity : Quantities]

NoResult == Raised("none", 0, "none")

\* The one element of a singleton set; {f(x) : x \in {e}} evaluates e once.
The(S) == CHOOSE x \in S : TRUE

\* Lines 92-104 for the shock at place i of shocks: the exception the
\* iteration raises, or "no" and the scenario it appends.
stress_step(a, b, i) ==
    LET shocked_ytm == shocked_ytm_of(a.ytm, shocks[i])
        appended(shocked_price) ==
            The({IF scenario.pnl_pct_class = "ZeroDivisionError"
                 THEN [raised |-> "ZeroDivisionError", scenario |-> <<>>]
                 ELSE [raised |-> "no", scenario |-> scenario] :
                     scenario \in {StressScenario(b, shocked_price,
                                       shocks[i], shocked_ytm, a.quantity)}})
    IN  The({IF shocked_price.outcome # "returned"
             THEN [raised |-> shocked_price.outcome, scenario |-> <<>>]
             ELSE appended(shocked_price) :
                 shocked_price \in
                     {price_bond(a.face_value, a.coupon_rate, shocked_ytm,
                                 a.maturity_years)}})

\* Lines 91-106 given the iterations: the loop stops at the first one that
\* raises; ret is the exit of the call, base and results are the locals as
\* they are at that exit.
stress_loop(b, steps) ==
    LET failed == {i \in 1..Len(steps) : steps[i].raised # "no"}
        first  == CHOOSE i \in failed : \A j \in failed : i <= j
        n      == IF failed = {} THEN Len(steps) ELSE first - 1
    IN  [ret     |-> IF failed = {} THEN "returned" ELSE steps[first].raised,
         base    |-> b,
         results |-> [i \in 1..n |-> steps[i].scenario]]

\* stress_test_bond as a function of its arguments.
stress_test_bond(a) ==
    The({IF b.outcome # "returned"
         THEN [ret |-> b.outcome, base |-> b, results |-> <<>>]
         ELSE The({stress_loop(b, steps) :
                      steps \in {<<>> \o [i \in 1..Len(shocks) |->
                                             stress_step(a, b, i)]}}) :
             b \in {price_bond(a.face_value, a.coupon_rate, a.ytm,
                               a.maturity_years)}})

CallRecord(ytm, r) ==
    [ytm |-> ytm, outcome |-> r.outcome, n_periods |-> r.n_periods,
     branch |-> r.branch, cash_flows |-> r.cash_flows]

\* Lines 110-131; the numbers in the units of the arguments.
INDIAN_BOND_PRESETS ==
    [GOI_10Y |->
        [name |-> "GOI 7.26% 2033 (10Y Benchmark G-Sec)",
         face_value |-> 1000 * MoneyScale, coupon_rate |-> 726000,
         ytm |-> 712000, maturity_years |-> 10 * YearScale],
     NHAI_PSU |->
        [name |-> "NHAI 7.35% 2031 (PSU Bond)",
         face_value |-> 1000 * MoneyScale, coupon_rate |-> 735000,
         ytm |-> 748000, maturity_years |-> 8 * YearScale],
     HDFC_CORP |->
        [name |-> "HDFC Bank 8.10% 2028 (Corporate AAA)",
         face_value |-> 1000 * MoneyScale, coupon_rate |-> 810000,
         ytm |-> 825000, maturity_years |-> 5 * YearScale],
     TBILL_91 |->
        [name |-> "91-Day T-Bill (Zero Coupon)",
         face_value |-> 1000 * MoneyScale, coupon_rate |-> 0,
         ytm |-> 685000, maturity_years |-> 25000]]

Init ==
    /\ op \in {"price", "stress"}
    /\ args \in Args
    /\ op = "price" => args.quantity = QtyScale
    /\ pc = "call"
    /\ result = NoResult
    /\ base = NoResult
    /\ results = <<>>
    /\ ret = "pending"
    /\ calls = <<>>
    /\ thread = <<>>
    /\ frames = <<>>
    /\ presets = INDIAN_BOND_PRESETS

\* price(face_value, coupon_rate, ytm, maturity_years)
Price ==
    /\ op = "price" /\ pc = "call"
    /\ \E r \in {price_bond(args.face_value, args.coupon_rate, args.ytm,
                            args.maturity_years)} :
           /\ result' = r
           /\ ret' = r.outcome
           /\ calls' = <<CallRecord(args.ytm, r)>>
    /\ pc' = "done"
    /\ UNCHANGED <<op, args, base, results>>
    /\ UNCHANGED conc_vars

\* stress, lines 87-89: the base price; an exception leaves the function.
StressBase ==
    /\ op = "stress" /\ pc = "call"
    /\ \E r \in {price_bond(args.face_value, args.coupon_rate, args.ytm,
                            args.maturity_years)} :
           /\ base' = r
           /\ calls' = <<CallRecord(args.ytm, r)>>
           /\ IF r.outcome = "returned"
              THEN pc' = "loop" /\ ret' = ret
              ELSE pc' = "done" /\ ret' = r.outcome
    /\ UNCHANGED <<op, args, result, results>>
    /\ UNCHANGED conc_vars

\* stress, lines 91-104: one iteration of the loop over shocks; an exception
\* in price_bond or in the division by base['price'] leaves the function.
StressShock ==
    /\ op = "stress" /\ pc = "loop" /\ Len(results) < Len(shocks)
    /\ \E shock_bps \in {shocks[Len(results) + 1]} :
       \E shocked_ytm \in {shocked_ytm_of(args.ytm, shock_bps)} :
       \E shocked_price \in {price_bond(args.face_value, args.coupon_rate,
                                        shocked_ytm, args.maturity_years)} :
       \E scenario \in {StressScenario(base, shocked_price, shock_bps,
                                       shocked_ytm, args.quantity)} :
           /\ calls' = Append(calls, CallRecord(shocked_ytm, shocked_price))
           /\ IF shocked_price.outcome # "returned"
              THEN pc' = "done" /\ ret' = shocked_price.outcome
                   /\ results' = results
              ELSE IF scenario.pnl_pct_class = "ZeroDivisionError"
              THEN pc' = "done" /\ ret' = "ZeroDivisionError"
                   /\ results' = results
              ELSE pc' = pc /\ ret' = ret
                   /\ results' = Append(results, scenario)
    /\ UNCHANGED <<op, args, result, base>>
    /\ UNCHANGED conc_vars

\* stress, line 106: return results.
StressReturn ==
    /\ op = "stress" /\ pc = "loop" /\ Len(results) = Len(shocks)
    /\ pc' = "done"
    /\ ret' = "returned"
    /\ UNCHANGED <<op, args, result, base, results, calls>>
    /\ UNCHANGED conc_vars

Next == Price \/ StressBase \/ StressShock \/ StressReturn

Spec == Init /\ [][Next]_vars

----------------------------------------------------------------------------
(* Concurrent callers.  Each thread makes one call; the threads advance   *)
(* in any interleaving, which includes one call running wholly before or   *)
(* after another.  A step is one price_bond call with the statements       *)
(* around it: the functions touch nothing but their arguments and locals,  *)
(* so a finer interleaving shows no other state.                           *)

Threads == 1..NumThreads

\* The arguments of the concurrent calls: a coupon bond, a bill whose
\* shocked yields are floored, and a bill whose stress raises.
ConcArgs ==
    {[face_value |-> MoneyScale, coupon_rate |-> 500000, ytm |-> 712346,
      maturity_years |-> YearScale, quantity |-> QtyScale],
     [face_value |-> MoneyScale, coupon_rate |-> 0, ytm |-> 50000,
      maturity_years |-> 25000, quantity |-> -15],
     [face_value |-> 10, coupon_rate |-> 0, ytm |-> 0,
      maturity_years |-> 24932, quantity |-> QtyScale]}

\* The locals of a call of stress_test_bond before line 87 has run.
NoFrame == [base |-> NoResult, results |-> <<>>]

\* The call run alone: its exit, its value and, for stress, its locals.
RunAlone(o, a) ==
    IF o = "price"
    THEN The({[ret |-> r.outcome, result |-> r, report |-> <<>>,
               base |-> NoResult, results |-> <<>>] :
                  r \in {price_bond(a.face_value, a.coupon_rate, a.ytm,
                                    a.maturity_years)}})
    ELSE The({[ret |-> s.ret, result |-> NoResult,
               report |-> IF s.ret = "returned" THEN s.results ELSE <<>>,
               base |-> s.base, results |-> s.results] :
                  s \in {stress_test_bond(a)}})

\* A thread about to call: alone records what the same call returns when
\* nothing else runs.
ConcCalls ==
    {[op |-> o, args |-> a, pc |-> "call", ret |-> "pending",
      result |-> NoResult, report |-> <<>>, alone |-> RunAlone(o, a)] :
        o \in {"price", "stress"}, a \in ConcArgs}

ConcInit ==
    /\ thread \in [Threads -> ConcCalls]
    /\ frames = [t \in Threads |-> NoFrame]
    /\ presets = INDIAN_BOND_PRESETS
    /\ op = "none"
    /\ args = <<>>
    /\ pc = "done"
    /\ result = NoResult
    /\ base = NoResult
    /\ results = <<>>
    /\ ret = "none"
    /\ calls = <<>>

\* All threads keep their locals in one frame, as module-level variables
\* would be.
frame_of_shared(t) == CHOOSE f \in Threads : \A g \in Threads : f <= g

\* Lines 87-89: base, shocks and results are locals, one set per call.
frame_of(t) == t

ThreadPrice(t) ==
    /\ thread[t].op = "price" /\ thread[t].pc = "call"
    /\ \E r \in {price_bond(thread[t].args.face_value,
                            thread[t].args.coupon_rate, thread[t].args.ytm,
                            thread[t].args.maturity_years)} :
           thread' = [thread EXCEPT ![t].pc = "done", ![t].ret = r.outcome,
                                    ![t].result = r]
    /\ UNCHANGED <<frames, presets>>
    /\ UNCHANGED call_vars

ThreadStressBase(t) ==
    /\ thread[t].op = "stress" /\ thread[t].pc = "call"
    /\ \E r \in {price_bond(thread[t].args.face_value,
                            thread[t].args.coupon_rate, thread[t].args.ytm,
                            thread[t].args.maturity_years)} :
           /\ frames' = [frames EXCEPT ![frame_of(t)] =
                             [base |-> r, results |-> <<>>]]
           /\ thread' = IF r.outcome = "returned"
                        THEN [thread EXCEPT ![t].pc = "loop"]
                        ELSE [thread EXCEPT ![t].pc = "done",
                                            ![t].ret = r.outcome]
    /\ UNCHANGED presets
    /\ UNCHANGED call_vars

ThreadStressShock(t) ==
    LET a == thread[t].args
        f == frames[frame_of(t)]
    IN
    /\ thread[t].op = "stress" /\ thread[t].pc = "loop"
    /\ Len(f.results) < Len(shocks)
    /\ \E shock_bps \in {shocks[Len(f.results) + 1]} :
       \E shocked_ytm \in {shocked_ytm_of(a.ytm, shock_bps)} :
       \E shocked_price \in {price_bond(a.face_value, a.coupon_rate,
                                        shocked_ytm, a.maturity_years)} :
       \E scenario \in {StressScenario(f.base, shocked_price, shock_bps,
                                       shocked_ytm, a.quantity)} :
           IF shocked_price.outcome # "returned"
           THEN /\ thread' = [thread EXCEPT ![t].pc = "done",
                                  ![t].ret = shocked_price.outcome]
                /\ frames' = frames
           ELSE IF scenario.pnl_pct_class = "ZeroDivisionError"
           THEN /\ thread' = [thread EXCEPT ![t].pc = "done",
                                  ![t].ret = "ZeroDivisionError"]
                /\ frames' = frames
           ELSE /\ thread' = thread
                /\ frames' = [frames EXCEPT ![frame_of(t)].results =
                                  Append(f.results, scenario)]
    /\ UNCHANGED presets
    /\ UNCHANGED call_vars

ThreadStressReturn(t) ==
    /\ thread[t].op = "stress" /\ thread[t].pc = "loop"
    /\ Len(frames[frame_of(t)].results) = Len(shocks)
    /\ thread' = [thread EXCEPT ![t].pc = "done", ![t].ret = "returned",
                       ![t].report = frames[frame_of(t)].results]
    /\ UNCHANGED <<frames, presets>>
    /\ UNCHANGED call_vars

ConcNext ==
    \E t \in Threads :
        \/ ThreadPrice(t)
        \/ ThreadStressBase(t)
        \/ ThreadStressShock(t)
        \/ ThreadStressReturn(t)

ConcSpec == ConcInit /\ [][ConcNext]_vars

----------------------------------------------------------------------------
(* Properties.                                                             *)

\* The inputs the data model admits: face_value > 0, coupon_rate >= 0,
\* yield_to_maturity > -1, maturity_years > 0.
ValidArgs ==
    /\ args.face_value > 0
    /\ args.coupon_rate >= 0
    /\ args.ytm > -RateScale
    /\ args.maturity_years > 0

StressReturned == op = "stress" /\ pc = "done" /\ ret = "returned"

\* C1: in every report of stress on admissible inputs (any ytm > -1, also
\* below 0.0001) the shock_bps = 0 scenario has the base price, and
\* pnl_per_bond, total_pnl and pnl_pct are 0.
C1_ShockZeroReproducesBase ==
    (StressReturned /\ ValidArgs) =>
        \E i \in 1..Len(results) :
            /\ results[i].shock_bps = 0
            /\ results[i].price = base.price
            /\ results[i].pnl_per_bond = 0
            /\ results[i].total_pnl = 0
            /\ results[i].pnl_pct = 0

\* C2: the yield handed to price_bond for each shock is exactly
\* max(0.0001, ytm + shock_bps / 10000), hence never below 0.0001, and the
\* scenario reports it as a percentage rounded to 4 decimals; ytm = 0.0050
\* with -300 bps is repriced at 0.0001 and reported as 0.01.
C2_ShockedYieldFloored ==
    op = "stress" =>
        /\ \A i \in 2..Len(calls) :
              LET y == args.ytm + shocks[i - 1] * (RateScale \div 10000)
              IN  /\ calls[i].ytm = IF y > 1000 THEN y ELSE 1000
                  /\ calls[i].ytm >= 1000
        /\ \A i \in 1..Len(results) :
              /\ results[i].shocked_ytm * 10 - calls[i + 1].ytm \in -5..5
              /\ results[i].shocked_ytm >= 100
        /\ (args.ytm = 50000 /\ Len(results) >= 1) =>
              /\ calls[2].ytm = 1000
              /\ results[1].shock_bps = -300
              /\ results[1].shocked_ytm = 100

C2_Witness ==
    /\ StressReturned
    /\ args.ytm = 50000
    /\ results[1].shocked_ytm = 100
    /\ results[9].shocked_ytm = 35000

\* C3: every report holds exactly nine scenarios whose shock_bps read
\* -300, -200, -100, -50, 0, 50, 100, 200, 300 in output order, whatever the
\* inputs and the computed prices; while the loop runs, results is a prefix
\* of that order.
C3_CanonicalOrder ==
    LET canonical == <<-300, -200, -100, -50, 0, 50, 100, 200, 300>>
    IN  /\ Len(results) <= 9
        /\ \A i \in 1..Len(results) : results[i].shock_bps = canonical[i]
        /\ StressReturned => Len(results) = 9

\* A report whose prices are not in the order of the shocks.
C3_Witness ==
    /\ StressReturned
    /\ Len(results) = 9
    /\ results[1].price < results[9].price

\* C4: price and stress on inputs with face_value <= 0, coupon_rate < 0,
\* maturity_years <= 0 or ytm <= -1 fail with a validation error raised
\* before any computation, and return no result.
C4_InvalidInputsRejected ==
    (pc = "done" /\ ~ValidArgs) =>
        /\ ret = "ValidationError"
        /\ calls = <<>>

\* C5 as stated: for a valid bond with n_periods > 0 the scenario with the
\* higher shocked_ytm has the strictly lower price, and consecutive
\* scenarios in canonical order have strictly decreasing prices.
C5_StrictlyDecreasing ==
    (StressReturned /\ ValidArgs /\ base.n_periods > 0) =>
        /\ \A i, j \in 1..Len(results) :
              results[i].shocked_ytm < results[j].shocked_ytm
                  => results[i].price > results[j].price
        /\ \A i \in 1..(Len(results) - 1) :
              results[i].price > results[i + 1].price

\* C5 (amended): for a valid bond with n_periods > 0 the scenario with the
\* higher shocked_ytm never has the higher price, and prices never increase
\* along the canonical order; scenarios floored to the same yield have the
\* same price.
C5_NonIncreasing ==
    (op = "stress" /\ ValidArgs /\ base.n_periods > 0) =>
        /\ \A i, j \in 1..Len(results) :
              /\ results[i].shocked_ytm < results[j].shocked_ytm
                    => results[i].price >= results[j].price
              /\ results[i].shocked_ytm = results[j].shocked_ytm
                    => results[i].price = results[j].price
        /\ \A i \in 1..(Len(results) - 1) :
              results[i].price >= results[i + 1].price

\* A report with both a floored pair of equal prices and a strict decrease.
C5_Witness ==
    /\ StressReturned /\ ValidArgs /\ base.n_periods > 0
    /\ results[1].price = results[2].price
    /\ results[5].price > results[6].price

\* C6: in every scenario pnl_per_bond is the scenario's price minus the base
\* price and total_pnl is pnl_per_bond * quantity rounded to 2 decimals;
\* quantity 0 gives total_pnl 0, the negated quantity gives the negated
\* total_pnl, and no other field depends on quantity.
C6_PnlScalesWithQuantity ==
    op = "stress" =>
        \A i \in 1..Len(results) :
            LET s      == results[i]
                sp     == [price |-> s.price]
                with(q) == StressScenario(base, sp, s.shock_bps,
                                          calls[i + 1].ytm, q)
                unit   == with(QtyScale)
                t      == s.pnl_per_bond * args.quantity     \* in 10^-5
            IN  /\ s.pnl_per_bond = s.price - base.price
                /\ 2 * Abs(s.total_pnl * 1000 - t) <= 1000
                /\ args.quantity = 0 => s.total_pnl = 0
                /\ args.quantity = QtyScale
                       => 2 * Abs(s.total_pnl * 100 - s.pnl_per_bond) <= 100
                /\ with(-args.quantity).total_pnl = -s.total_pnl
                /\ s.shock_bps = unit.shock_bps
                /\ s.shocked_ytm = unit.shocked_ytm
                /\ s.price = unit.price
                /\ s.pnl_per_bond = unit.pnl_per_bond
                /\ s.pnl_pct = unit.pnl_pct
                /\ s.pnl_pct_class = unit.pnl_pct_class

\* A short position of 1.5 bonds: the gains of the long holder are its
\* losses, scaled and rounded to 2 decimals.
C6_Witness ==
    /\ StressReturned
    /\ args.quantity = -15
    /\ results[1].pnl_per_bond > 100
    /\ results[1].total_pnl < -1
    /\ results[1].total_pnl * 1000 # results[1].pnl_per_bond * args.quantity

\* C7: for every maturity_years, price_bond computes
\* n_periods = floor(maturity_years * 2) and takes the discount branch if and
\* only if n_periods = 0, which for valid inputs is 0 < maturity_years < 0.5.
C7_FloorPeriods ==
    \A i \in 1..Len(calls) :
        LET floor == (2 * args.maturity_years) \div YearScale
        IN  /\ calls[i].n_periods = floor
            /\ calls[i].branch = "discount" <=> floor = 0
            /\ ValidArgs => (calls[i].branch = "discount"
                               <=> args.maturity_years < YearScale \div 2)

\* C8: with n_periods = N > 0 the cash flows are N entries, the first N - 1
\* equal to face_value * coupon_rate / 2 and the last one to that plus
\* face_value; every call of one stress run, whatever its yield, builds the
\* same stream.
C8_CashFlowStream ==
    \A i \in 1..Len(calls) :
        (calls[i].n_periods > 0) =>
            LET cf     == calls[i].cash_flows
                N      == calls[i].n_periods
                coupon == FMulDiv(args.face_value, args.coupon_rate,
                                  2 * RateScale)
            IN  /\ DOMAIN cf = 1..N
                /\ \A k \in 1..(N - 1) : cf[k] = coupon
                /\ cf[N] = coupon + args.face_value
                /\ cf = calls[1].cash_flows

\* Calls at different yields with a coupon and more than one period.
C8_Witness ==
    /\ StressReturned
    /\ calls[1].n_periods = 3
    /\ calls[1].ytm # calls[2].ytm
    /\ calls[2].cash_flows[1] > 0
    /\ calls[2].cash_flows[3] > calls[2].cash_flows[1]
    /\ calls[10].cash_flows = calls[1].cash_flows

\* The value returned by the single price_bond call of price, or by the
\* base call of stress.
Returned(r) == r.outcome = "returned"

\* C9 as stated: in the discount branch macaulay_duration = maturity_years,
\* convexity = 0 and current_yield = 0, and coupon_rate has no effect on
\* price, durations, convexity, dv01 and current_yield.
C9_DiscountDurationExact ==
    (op = "price" /\ ValidArgs /\ Returned(result) /\ result.n_periods = 0) =>
        LET zero == price_bond(args.face_value, 0, args.ytm,
                               args.maturity_years)
        IN  /\ result.macaulay_duration * 10 = args.maturity_years
            /\ result.convexity = 0
            /\ result.current_yield = 0
            /\ result.price = zero.price
            /\ result.macaulay_duration = zero.macaulay_duration
            /\ result.modified_duration = zero.modified_duration
            /\ result.convexity = zero.convexity
            /\ result.dv01 = zero.dv01
            /\ result.current_yield = zero.current_yield

\* C9 (amended): in the discount branch, whenever price_bond returns,
\* macaulay_duration = round(maturity_years, 4), convexity = 0 and
\* current_yield = 0, and coupon_rate has no effect on price, durations,
\* convexity, dv01 and current_yield.
C9_DiscountDurationRounded ==
    (op = "price" /\ Returned(result) /\ result.n_periods = 0) =>
        LET zero == price_bond(args.face_value, 0, args.ytm,
                               args.maturity_years)
        IN  /\ 2 * Abs(result.macaulay_duration * 10 - args.maturity_years)
                  <= 10
            /\ (args.maturity_years % 10 = 0) =>
                  result.macaulay_duration * 10 = args.maturity_years
            /\ result.convexity = 0
            /\ result.current_yield = 0
            /\ result.price = zero.price
            /\ result.macaulay_duration = zero.macaulay_duration
            /\ result.modified_duration = zero.modified_duration
            /\ result.convexity = zero.convexity
            /\ result.dv01 = zero.dv01
            /\ result.current_yield = zero.current_yield

\* A 91-day bill with a coupon rate: 91/365 = 0.24932 years is returned as
\* 0.2493.
C9_Witness ==
    /\ op = "price" /\ Returned(result) /\ ValidArgs
    /\ args.maturity_years = 24932
    /\ args.coupon_rate > 0
    /\ result.macaulay_duration = 2493

\* C11: when the base price computation of stress fails (inputs outside the
\* data model, an exception in price_bond, or a base price that is zero or
\* not finite), the call ends with an error and returns no report.
C11_BaseFailureAborts ==
    (/\ op = "stress" /\ pc = "done"
     /\ \/ ~ValidArgs
        \/ base.outcome # "returned"
        \/ base.price = 0
        \/ ~base.finite)
        => ret # "returned"

\* The ratios of a returned pricing result were computed from numbers: none
\* is the nan of a division by a zero price.
RatiosDefined(r) == r.outcome = "returned" => r.finite

\* C12: no ratio is evaluated with a zero or non-finite price as its
\* denominator: price returns no result whose duration, convexity or
\* price-derived ratios divide by a zero price, stress ends with an explicit
\* computation error when the base price is zero, every pnl_pct reported is
\* a number, and current_yield is 0 by convention when the price is not
\* positive.
C12_ZeroPriceGuarded ==
    /\ (op = "price" /\ pc = "done") => RatiosDefined(result)
    /\ (op = "stress" /\ pc = "done" /\ base.outcome = "returned"
           /\ (base.price = 0 \/ ~base.finite))
           => ret = "ComputationError"
    /\ \A i \in 1..Len(results) : results[i].pnl_pct_class = "finite"
    /\ (op = "price" /\ pc = "done" /\ ret = "returned"
           /\ (result.price < 0 \/ ~result.finite))
           => result.current_yield = 0

IsPrefix(p, q) ==
    /\ Len(p) <= Len(q)
    /\ \A i \in 1..Len(p) : p[i] = q[i]

\* C13: price and stress are stateless and referentially transparent: in
\* every interleaving of concurrent calls each call ends as the same call
\* run alone does, with the same value; the locals of a call hold only what
\* that call itself computed, so no call reads or writes what another
\* wrote; and INDIAN_BOND_PRESETS is never modified.
C13_ReferentiallyTransparent ==
    /\ \A t \in Threads :
          LET c == thread[t]
              f == frames[t]
          IN  /\ c.pc = "done" =>
                    /\ c.ret = c.alone.ret
                    /\ c.result = c.alone.result
                    /\ c.report = c.alone.report
              /\ (c.op = "price" \/ c.pc = "call") => f = NoFrame
              /\ (c.op = "stress" /\ c.pc # "call") =>
                    /\ f.base = c.alone.base
                    /\ IsPrefix(f.results, c.alone.results)
    /\ presets = INDIAN_BOND_PRESETS

\* Two calls of stress with different arguments, both inside their loops at
\* different iterations.
C13_Witness ==
    /\ thread[1].op = "stress" /\ thread[2].op = "stress"
    /\ thread[1].args # thread[2].args
    /\ thread[1].pc = "loop" /\ thread[2].pc = "loop"
    /\ Len(frames[1].results) = 3
    /\ Len(frames[2].results) = 7
    /\ frames[1].results[1] # frames[2].results[1]

============================================================================
